---- MODULE Spec2Model ----
(***************************************************************************)
(* Model of generate_cover_letter.py: the template selector                *)
(* choose_sentence, the letter assembler generate_letter, and the process  *)
(* wrapper main.                                                           *)
(*                                                                         *)
(* Text is a sequence of chunks.  A chunk is one character of an input     *)
(* value ("a", " ", "\n", "{", ...), or one run of literal template text   *)
(* that holds no brace and no line break.  "\n" is the line break and      *)
(* " " the blank; both are whitespace for str.strip.                       *)
(***************************************************************************)
EXTENDS Naturals, Sequences, FiniteSets, TLC

VARIABLES
    stdin,       \* what the process finds on standard input
    pc,          \* the statement of main() that runs next
    raw,         \* main: raw
    data,        \* main: data
    letter,      \* main: letter
    draws,       \* the random draws the call of generate_letter consumed, in order
    exc,         \* the exception being handled, if any
    stdout,      \* text written to standard output
    stderr,      \* text written to standard error
    exitStatus,  \* the exit status of the process, <<>> while it runs
    prev,        \* the previous run of the same command, once it has been run again
    argTemplates, \* choose_sentence called on its own: its templates argument
    argContext,   \* choose_sentence called on its own: its context argument
    result        \* choose_sentence called on its own: what the call did

vars == <<stdin, pc, raw, data, letter, draws, exc, stdout, stderr, exitStatus,
          prev, argTemplates, argContext, result>>

(***************************************************************************)
(* Bounds of the model                                                     *)
(***************************************************************************)
\* longest input value, in characters, of the records that vary one field
MaxLen == 3
\* longest pool handed to choose_sentence when it is called on its own
MaxPool == 2

(***************************************************************************)
(* Text                                                                    *)
(***************************************************************************)
NL == "\n"
Whitespace == {" ", NL}

RECURSIVE lstrip(_)
lstrip(s) == IF s # <<>> /\ Head(s) \in Whitespace THEN lstrip(Tail(s)) ELSE s

RECURSIVE rstrip(_)
rstrip(s) ==
    IF s # <<>> /\ s[Len(s)] \in Whitespace
    THEN rstrip(SubSeq(s, 1, Len(s) - 1))
    ELSE s

\* str.strip(): leading and trailing whitespace removed, the inside kept
strip(s) == rstrip(lstrip(s))

\* sep.join(parts)
RECURSIVE join(_, _)
join(sep, parts) ==
    IF parts = <<>> THEN <<>>
    ELSE IF Len(parts) = 1 THEN parts[1]
    ELSE parts[1] \o <<sep>> \o join(sep, Tail(parts))

\* text.split("\n"): the lines of a text
RECURSIVE SplitFrom(_, _, _)
SplitFrom(s, i, cur) ==
    IF i > Len(s) THEN <<cur>>
    ELSE IF s[i] = NL THEN <<cur>> \o SplitFrom(s, i + 1, <<>>)
    ELSE SplitFrom(s, i + 1, Append(cur, s[i]))

Lines(s) == SplitFrom(s, 1, <<>>)

(***************************************************************************)
(* str.format, called with the context as its keyword arguments           *)
(***************************************************************************)
Returned(v) == [ok |-> TRUE, val |-> v, exc |-> "none"]
Raised(e) == [ok |-> FALSE, val |-> <<>>, exc |-> e]

\* the rest of the scan, with the text rendered so far put in front of it
Then(text, rest) == IF rest.ok THEN Returned(text \o rest.val) ELSE rest

\* The scan of a format string from chunk i on.  "{{" and "}}" are the escaped
\* braces, "{name}" is looked up in the keyword arguments (KeyError when it is
\* not there), "{}" asks for a positional argument and there is none
\* (IndexError), and any other brace is malformed (ValueError).  A value is
\* put in as it is and not scanned again.
RECURSIVE FormatFrom(_, _, _)
FormatFrom(t, i, kwargs) ==
    IF i > Len(t) THEN Returned(<<>>)
    ELSE IF t[i] = "{" THEN
        IF i + 1 <= Len(t) /\ t[i + 1] = "{"
        THEN Then(<<"{">>, FormatFrom(t, i + 2, kwargs))
        ELSE IF i + 1 <= Len(t) /\ t[i + 1] = "}"
        THEN Raised("IndexError")
        ELSE IF i + 2 <= Len(t) /\ t[i + 2] = "}"
        THEN IF t[i + 1] \in DOMAIN kwargs
             THEN Then(kwargs[t[i + 1]], FormatFrom(t, i + 3, kwargs))
             ELSE Raised("KeyError")
        ELSE Raised("ValueError")
    ELSE IF t[i] = "}" THEN
        IF i + 1 <= Len(t) /\ t[i + 1] = "}"
        THEN Then(<<"}">>, FormatFrom(t, i + 2, kwargs))
        ELSE Raised("ValueError")
    ELSE Then(<<t[i]>>, FormatFrom(t, i + 1, kwargs))

format(template, kwargs) == FormatFrom(template, 1, kwargs)

(***************************************************************************)
(* The random source: rng is the sequence of numbers the generator is      *)
(* going to hand out; a draw takes the first of them.                      *)
(***************************************************************************)
Draw == 0 .. 2

\* random.choice(seq): seq[randbelow(len(seq))]
random_choice(seq, rng) == seq[(Head(rng) % Len(seq)) + 1]

(***************************************************************************)
(* choose_sentence                                                         *)
(***************************************************************************)
\* a faulty variant: the formatting error is not caught
choose_sentence_uncaught(pool, kwargs, rng) ==
    IF pool = <<>>
    THEN [raised |-> "IndexError", value |-> <<>>, rng |-> rng, formatted |-> FALSE]
    ELSE LET template == random_choice(pool, rng)
             r == format(template, kwargs)
         IN  [raised |-> r.exc, value |-> r.val, rng |-> Tail(rng), formatted |-> r.ok]

\* The result of a call: what it raised ("none" when it returned), the value
\* it returned, the random source after it, and whether the value is the
\* formatted template (it is the template as written when formatting raised).
choose_sentence(pool, kwargs, rng) ==
    IF pool = <<>>
    THEN [raised |-> "IndexError", value |-> <<>>, rng |-> rng, formatted |-> FALSE]
    ELSE LET template == random_choice(pool, rng)
             r == format(template, kwargs)
         IN  [raised |-> "none",
              value |-> IF r.ok THEN r.val ELSE template,
              rng |-> Tail(rng),
              formatted |-> r.ok]

(***************************************************************************)
(* JSON values as json.loads builds them                                   *)
(***************************************************************************)
Str(s) == [t |-> "str", v |-> s]
Int == [t |-> "int", v |-> <<>>]
NoneValue == [t |-> "NoneType", v |-> <<>>]
List == [t |-> "list", v |-> <<>>]
Dict(items) == [t |-> "dict", items |-> items]

\* the message of the AttributeError for a missing method
NoAttribute(type, attr) ==
    <<"'", type, "' object has no attribute '", attr, "'">>

\* a faulty variant: d[key], which has no default for a key that is absent
dict_get_strict(d, key, default) ==
    IF key \in DOMAIN d.items THEN d.items[key] ELSE [t |-> "KeyError", v |-> <<>>]

\* d.get(key, default)
dict_get(d, key, default) ==
    IF key \in DOMAIN d.items THEN d.items[key] ELSE default

(***************************************************************************)
(* generate_letter                                                         *)
(***************************************************************************)
\* the keys read, in the order the code reads them
FieldOrder ==
    <<"applicantName", "applicantAddress", "applicantEmail", "applicantPhone",
      "jobTitle", "companyName", "strengths", "motivation">>

Keys == {FieldOrder[i] : i \in 1 .. Len(FieldOrder)}

introductions ==
    << <<"Mit großem Interesse habe ich die ausgeschriebene Position als ",
         "{", "jobTitle", "}", " bei ", "{", "companyName", "}", " gelesen.">>,
       <<"Die ausgeschriebene Stelle als ", "{", "jobTitle", "}", " bei ",
         "{", "companyName", "}", " hat mein besonderes Interesse geweckt.">>,
       <<"Als erfahrene Fachkraft im Bereich ", "{", "jobTitle", "}",
         " bin ich besonders an der Position bei ", "{", "companyName", "}",
         " interessiert.">> >>

\* a faulty variant: one variant of the pool is the empty text
strength_sentences_with_empty ==
    << <<"Mit meiner ", "{", "strengths", "}",
         " bin ich überzeugt, dass ich die Anforderungen der Position erfülle.">>,
       <<>>,
       <<"Ich verfüge über ", "{", "strengths", "}",
         ", die mich befähigen, die mir übertragenen Aufgaben erfolgreich zu erfüllen.">> >>

strength_sentences ==
    << <<"Mit meiner ", "{", "strengths", "}",
         " bin ich überzeugt, dass ich die Anforderungen der Position erfülle.">>,
       <<"Dank meiner ", "{", "strengths", "}",
         " sehe ich mich als ideale Besetzung für diese Stelle.">>,
       <<"Ich verfüge über ", "{", "strengths", "}",
         ", die mich befähigen, die mir übertragenen Aufgaben erfolgreich zu erfüllen.">> >>

motivation_sentences ==
    << <<"Was mich besonders motiviert, ist ", "{", "motivation", "}", ".">>,
       <<"Besonders reizvoll an dieser Stelle finde ich ", "{", "motivation", "}", ".">>,
       <<"Meine Motivation für diese Position ergibt sich aus ",
         "{", "motivation", "}", ".">> >>

closing_sentences ==
    << <<"Ich freue mich darauf, Sie in einem persönlichen Gespräch kennenzulernen.">>,
       <<"Gerne überzeuge ich Sie in einem Vorstellungsgespräch von meinen Fähigkeiten.">>,
       <<"Über eine Einladung zu einem persönlichen Gespräch würde ich mich sehr freuen.">> >>

salutation == <<"Sehr geehrte Damen und Herren,">>
signature == <<"Mit freundlichen Grüßen">>

\* a faulty variant: every value is taken for a string
FirstNonString_none(d, i) == 0

\* the first key, in reading order from i on, whose value has no strip method;
\* 0 when every value read is a string
RECURSIVE FirstNonString(_, _)
FirstNonString(d, i) ==
    IF i > Len(FieldOrder) THEN 0
    ELSE IF dict_get(d, FieldOrder[i], Str(<<>>)).t # "str" THEN i
    ELSE FirstNonString(d, i + 1)

\* a faulty variant: the value is read untrimmed
field_untrimmed(d, key) == dict_get(d, key, Str(<<>>)).v

\* data.get(key, "").strip(), for a string value
field(d, key) == strip(dict_get(d, key, Str(<<>>)).v)

\* a call of choose_sentence that was not made
NotCalled(rng) == [raised |-> "none", value |-> <<>>, rng |-> rng, formatted |-> FALSE]

\* a faulty variant: the sentence is rendered for an empty field too
optional_always(pool, value, kwargs, rng) == choose_sentence(pool, kwargs, rng)

\* choose_sentence(pool, context) if value else ""
optional(pool, value, kwargs, rng) ==
    IF value # <<>> THEN choose_sentence(pool, kwargs, rng) ELSE NotCalled(rng)

\* a faulty variant: a blank line also between the signature and the name
parts_blank_before_name(intro, strength_part, motivation_part, closing, applicant_name) ==
    <<salutation, <<>>, intro>>
        \o (IF strength_part # <<>> THEN << <<>>, strength_part >> ELSE <<>>)
        \o (IF motivation_part # <<>> THEN << <<>>, motivation_part >> ELSE <<>>)
        \o << <<>>, closing, <<>>, signature, <<>>, applicant_name >>

\* parts, before the contact information is put in front
parts(intro, strength_part, motivation_part, closing, applicant_name) ==
    <<salutation, <<>>, intro>>
        \o (IF strength_part # <<>> THEN << <<>>, strength_part >> ELSE <<>>)
        \o (IF motivation_part # <<>> THEN << <<>>, motivation_part >> ELSE <<>>)
        \o << <<>>, closing, <<>>, signature, applicant_name >>

\* a faulty variant: an empty contact field gets a line of its own
contact_lines_all(name, address, email, phone) == <<name, address, email, phone>>

\* contact_lines
contact_lines(name, address, email, phone) ==
    <<name>>
        \o (IF address # <<>> THEN <<address>> ELSE <<>>)
        \o (IF email # <<>> THEN <<email>> ELSE <<>>)
        \o (IF phone # <<>> THEN <<phone>> ELSE <<>>)

\* parts, with the contact information in front if there is any
with_contact(ps, name, address, email, phone) ==
    IF address # <<>> \/ email # <<>> \/ phone # <<>>
    THEN << join(NL, contact_lines(name, address, email, phone)), <<>> >> \o ps
    ELSE ps

\* a faulty variant: the motivation is left out of the context
context_without_motivation(job_title, company_name, strengths, motivation) ==
    [jobTitle |-> job_title, companyName |-> company_name, strengths |-> strengths]

\* context
context(job_title, company_name, strengths, motivation) ==
    [jobTitle |-> job_title, companyName |-> company_name,
     strengths |-> strengths, motivation |-> motivation]

\* the entry of a call in the record of draws: the pool drawn from, the number
\* drawn and whether the template was formatted; no entry when nothing was drawn
Drawn(pool, before, call) ==
    IF Len(call.rng) < Len(before)
    THEN << [pool |-> pool, draw |-> Head(before), formatted |-> call.formatted] >>
    ELSE <<>>

\* The result of a call: what it raised ("none" when it returned) and the
\* message, the letter it returned, the random source after it and the draws
\* it took from it.
generate_letter(d, rng) ==
    IF d.t # "dict"
    THEN [raised |-> "AttributeError", message |-> NoAttribute(d.t, "get"),
          value |-> <<>>, rng |-> rng, log |-> <<>>]
    ELSE IF FirstNonString(d, 1) # 0
    THEN [raised |-> "AttributeError",
          message |-> NoAttribute(
              dict_get(d, FieldOrder[FirstNonString(d, 1)], Str(<<>>)).t, "strip"),
          value |-> <<>>, rng |-> rng, log |-> <<>>]
    ELSE
    LET applicant_name == field(d, "applicantName")
        applicant_address == field(d, "applicantAddress")
        applicant_email == field(d, "applicantEmail")
        applicant_phone == field(d, "applicantPhone")
        job_title == field(d, "jobTitle")
        company_name == field(d, "companyName")
        strengths == field(d, "strengths")
        motivation == field(d, "motivation")
        kwargs == context(job_title, company_name, strengths, motivation)
        intro == choose_sentence(introductions, kwargs, rng)
        strength_part == optional(strength_sentences, strengths, kwargs, intro.rng)
        motivation_part ==
            optional(motivation_sentences, motivation, kwargs, strength_part.rng)
        closing == choose_sentence(closing_sentences, kwargs, motivation_part.rng)
        ps == with_contact(
                  parts(intro.value, strength_part.value, motivation_part.value,
                        closing.value, applicant_name),
                  applicant_name, applicant_address, applicant_email, applicant_phone)
    IN  [raised |-> "none", message |-> <<>>,
         value |-> join(NL, ps),
         rng |-> closing.rng,
         log |-> Drawn("introductions", rng, intro)
                 \o Drawn("strength_sentences", intro.rng, strength_part)
                 \o Drawn("motivation_sentences", strength_part.rng, motivation_part)
                 \o Drawn("closing_sentences", motivation_part.rng, closing)]

(***************************************************************************)
(* What the process may find on standard input                             *)
(***************************************************************************)
NoValue == [t |-> "none", v |-> <<>>]
EmptyInput == [kind |-> "empty", value |-> NoValue]
NotJson == [kind |-> "text", value |-> NoValue]
Json(value) == [kind |-> "json", value |-> value]

\* a key the record does not hold
Absent == [t |-> "absent", v |-> <<>>]

\* the JSON object with the given value for each key, less the absent ones
Object(f) == Dict([k \in {x \in DOMAIN f : f[x] # Absent} |-> f[k]])

Initial(key) ==
    CASE key = "applicantName" -> "N"
      [] key = "applicantAddress" -> "A"
      [] key = "applicantEmail" -> "E"
      [] key = "applicantPhone" -> "P"
      [] key = "jobTitle" -> "J"
      [] key = "companyName" -> "C"
      [] key = "strengths" -> "S"
      [] key = "motivation" -> "M"

\* a value of two words with whitespace around it
Sample(key) == Str(<<" ", Initial(key), " ", Initial(key), NL>>)
Blank == Str(<<" ">>)

\* absent, present, and for some keys present with nothing but whitespace
Options(key) ==
    IF key \in {"applicantName", "applicantAddress", "strengths", "motivation"}
    THEN {Absent, Blank, Sample(key)}
    ELSE {Absent, Sample(key)}

Assigned(n, a, e, p, j, c, s, m) ==
    [applicantName |-> n, applicantAddress |-> a, applicantEmail |-> e,
     applicantPhone |-> p, jobTitle |-> j, companyName |-> c,
     strengths |-> s, motivation |-> m]

\* every combination of the options of the eight keys
Combinations ==
    { Object(Assigned(n, a, e, p, j, c, s, m)) :
        n \in Options("applicantName"), a \in Options("applicantAddress"),
        e \in Options("applicantEmail"), p \in Options("applicantPhone"),
        j \in Options("jobTitle"), c \in Options("companyName"),
        s \in Options("strengths"), m \in Options("motivation") }

Alphabet == {"x", " ", NL}

\* the texts of at most n characters
RECURSIVE Texts(_)
Texts(n) ==
    IF n = 0 THEN {<<>>}
    ELSE LET shorter == Texts(n - 1)
         IN  shorter \cup {Append(s, ch) : s \in shorter, ch \in Alphabet}

\* a value that reads like a placeholder
BraceText == <<"{", "strengths", "}">>

NonStrings == {Int, NoneValue, List}

\* a record with a name, and one more key holding the given value
NameAnd(key, value) ==
    Dict([k \in {"applicantName", key} |->
            IF k = key THEN value ELSE Sample("applicantName")])

\* the records that vary the value of one key
OneKeyVaried ==
    { NameAnd(key, Str(s)) : key \in Keys, s \in Texts(MaxLen) \cup {BraceText} }

\* the records in which a key holds something that is not a string
WithNonString ==
    { NameAnd(key, v) : key \in Keys, v \in NonStrings }
        \cup { Dict([k \in Keys |-> IF k \in {key, "motivation"} THEN v
                                    ELSE Sample(k)]) :
                 key \in {"jobTitle", "strengths"}, v \in NonStrings }
        \cup { Dict([k \in {"applicantName", "remark"} |->
                        IF k = "remark" THEN Int ELSE Sample(k)]) }

Inputs ==
    {EmptyInput, NotJson}
        \cup {Json(v) : v \in {Int, NoneValue, List, Str(<<"x">>)}}
        \cup {Json(d) : d \in Combinations \cup OneKeyVaried \cup WithNonString}

\* the inputs of the runs that are repeated
RepeatedInputs ==
    {EmptyInput}
        \cup { Json(Object(Assigned(Sample("applicantName"), a, Absent, Absent,
                                   Sample("jobTitle"), Absent, s, m))) :
                 a \in {Absent, Sample("applicantAddress")},
                 s \in {Absent, Sample("strengths"), Str(<<"x", NL, "x">>)},
                 m \in {Absent, Sample("motivation")} }

\* every sequence of numbers the random source may hand out to one call
Tapes == [1 .. 4 -> Draw]

(***************************************************************************)
(* main                                                                    *)
(***************************************************************************)
NoException == [type |-> "none", message |-> <<>>]
NoRun == [stdin |-> EmptyInput, draws |-> <<>>, stdout |-> <<>>, exitStatus |-> <<>>]
NoResult == [raised |-> "not called", value |-> <<>>, rng |-> <<>>, formatted |-> FALSE]

\* json.loads(raw)
json_loads(text) ==
    IF text.kind = "json"
    THEN [raised |-> "none", message |-> <<>>, value |-> text.value]
    ELSE [raised |-> "JSONDecodeError",
          message |-> <<"Expecting value: line 1 column 1 (char 0)">>,
          value |-> NoValue]

Fresh ==
    /\ pc = "read"
    /\ raw = EmptyInput
    /\ data = NoValue
    /\ letter = <<>>
    /\ draws = <<>>
    /\ exc = NoException
    /\ stdout = <<>>
    /\ stderr = <<>>
    /\ exitStatus = <<>>

Idle ==
    /\ argTemplates = <<>>
    /\ argContext = <<>>
    /\ result = NoResult

Init ==
    /\ stdin \in Inputs
    /\ Fresh
    /\ prev = NoRun
    /\ Idle

\* a faulty variant: empty input is handed on to json.loads
Read_unchecked ==
    /\ pc = "read"
    /\ raw' = stdin
    /\ pc' = "loads"
    /\ UNCHANGED <<stdin, data, letter, draws, exc, stdout, stderr, exitStatus,
                   prev, argTemplates, argContext, result>>

\* raw = sys.stdin.read(); if not raw: raise ValueError(...)
Read ==
    /\ pc = "read"
    /\ raw' = stdin
    /\ IF stdin.kind = "empty"
       THEN /\ exc' = [type |-> "ValueError",
                       message |-> <<"No input provided to the letter generator">>]
            /\ pc' = "except"
       ELSE /\ exc' = exc
            /\ pc' = "loads"
    /\ UNCHANGED <<stdin, data, letter, draws, stdout, stderr, exitStatus,
                   prev, argTemplates, argContext, result>>

\* data = json.loads(raw)
Loads ==
    /\ pc = "loads"
    /\ LET r == json_loads(raw)
       IN  IF r.raised = "none"
           THEN /\ data' = r.value
                /\ exc' = exc
                /\ pc' = "generate"
           ELSE /\ data' = data
                /\ exc' = [type |-> r.raised, message |-> r.message]
                /\ pc' = "except"
    /\ UNCHANGED <<stdin, raw, letter, draws, stdout, stderr, exitStatus,
                   prev, argTemplates, argContext, result>>

\* letter = generate_letter(data)
Generate ==
    /\ pc = "generate"
    /\ \E rng \in Tapes :
         LET r == generate_letter(data, rng)
         IN  IF r.raised = "none"
             THEN /\ letter' = r.value
                  /\ draws' = r.log
                  /\ exc' = exc
                  /\ pc' = "write"
             ELSE /\ letter' = letter
                  /\ draws' = r.log
                  /\ exc' = [type |-> r.raised, message |-> r.message]
                  /\ pc' = "except"
    /\ UNCHANGED <<stdin, raw, data, stdout, stderr, exitStatus,
                   prev, argTemplates, argContext, result>>

\* sys.stdout.write(letter), and main returns
Write ==
    /\ pc = "write"
    /\ stdout' = stdout \o letter
    /\ exitStatus' = <<0>>
    /\ pc' = "exited"
    /\ UNCHANGED <<stdin, raw, data, letter, draws, exc, stderr,
                   prev, argTemplates, argContext, result>>

\* except Exception as exc: the line on standard error, and sys.exit(1)
Except ==
    /\ pc = "except"
    /\ stderr' = stderr \o <<"Error generating letter: ">> \o exc.message \o <<NL>>
    /\ exitStatus' = <<1>>
    /\ pc' = "exited"
    /\ UNCHANGED <<stdin, raw, data, letter, draws, exc, stdout,
                   prev, argTemplates, argContext, result>>

Next == Read \/ Loads \/ Generate \/ Write \/ Except

Spec == Init /\ [][Next]_vars

(***************************************************************************)
(* The same command run a second time on the same input                    *)
(***************************************************************************)
InitRepeated ==
    /\ stdin \in RepeatedInputs
    /\ Fresh
    /\ prev = NoRun
    /\ Idle

Rerun ==
    /\ pc = "exited"
    /\ prev = NoRun
    /\ prev' = [stdin |-> stdin, draws |-> draws, stdout |-> stdout,
                exitStatus |-> exitStatus]
    /\ pc' = "read"
    /\ raw' = EmptyInput
    /\ data' = NoValue
    /\ letter' = <<>>
    /\ draws' = <<>>
    /\ exc' = NoException
    /\ stdout' = <<>>
    /\ stderr' = <<>>
    /\ exitStatus' = <<>>
    /\ UNCHANGED <<stdin, argTemplates, argContext, result>>

NextRepeated == Read \/ Loads \/ Generate \/ Write \/ Except \/ Rerun

SpecRepeated == InitRepeated /\ [][NextRepeated]_vars

(***************************************************************************)
(* choose_sentence called on its own                                       *)
(***************************************************************************)
\* templates with the placeholders the context may or may not define, and
\* format strings that str.format does not accept or rewrites
SomeTemplates ==
    { <<"Hallo.">>,
      <<"Als ", "{", "jobTitle", "}", " bei ", "{", "companyName", "}", ".">>,
      <<"{", "strengths", "}", " und ", "{", "jobTitle", "}">>,
      <<"{", "jobTitle", "}", "{", "jobTitle", "}">>,
      <<"Die Menge ", "{", "{", "jobTitle", "}", "}">>,
      <<"{", "jobTitle", "}", " und ", "{", "}">>,
      <<"{", "jobTitle", "}", " und ", "{">>,
      <<"}", " ", "{", "jobTitle", "}">> }

\* the pools of at most n templates
RECURSIVE PoolsUpTo(_)
PoolsUpTo(n) ==
    IF n = 0 THEN {<<>>}
    ELSE LET shorter == PoolsUpTo(n - 1)
         IN  shorter \cup {Append(q, t) : q \in shorter, t \in SomeTemplates}

SomeValues == {<<>>, <<"x", " ", "y">>, <<"{", "companyName", "}">>}

\* the contexts that define some of the placeholder names
SomeContexts ==
    UNION { [names -> SomeValues] : names \in SUBSET {"jobTitle", "companyName", "strengths"} }

InitChoose ==
    /\ stdin = EmptyInput
    /\ Fresh
    /\ prev = NoRun
    /\ argTemplates \in PoolsUpTo(MaxPool)
    /\ argContext \in SomeContexts
    /\ result = NoResult

\* choose_sentence(templates, context)
Choose ==
    /\ result = NoResult
    /\ \E rng \in [1 .. 1 -> Draw] :
         /\ result' = choose_sentence(argTemplates, argContext, rng)
         /\ draws' = Drawn("templates", rng, choose_sentence(argTemplates, argContext, rng))
    /\ UNCHANGED <<stdin, pc, raw, data, letter, exc, stdout, stderr,
                   exitStatus, prev, argTemplates, argContext>>

NextChoose == Choose

SpecChoose == InitChoose /\ [][NextChoose]_vars

(***************************************************************************)
(* What the properties speak of                                            *)
(***************************************************************************)
Succeeded == pc = "exited" /\ exitStatus = <<0>>

\* the input is a JSON object whose values are all strings
StringRecord ==
    /\ stdin.kind = "json"
    /\ stdin.value.t = "dict"
    /\ \A k \in DOMAIN stdin.value.items : stdin.value.items[k].t = "str"

\* s without its leading and trailing whitespace: from its first character
\* that is not whitespace to its last
Trim(s) ==
    LET solid == {i \in 1 .. Len(s) : s[i] \notin Whitespace}
    IN  IF solid = {} THEN <<>>
        ELSE SubSeq(s, CHOOSE i \in solid : \A j \in solid : i <= j,
                       CHOOSE i \in solid : \A j \in solid : j <= i)

\* the trimmed value of a key of the input record, empty when the key is absent
Given(key) ==
    IF key \in DOMAIN stdin.value.items
    THEN Trim(stdin.value.items[key].v)
    ELSE <<>>

HasLineBreak(s) == \E i \in 1 .. Len(s) : s[i] = NL

\* no value of the input record spans several lines
SingleLineValues == \A k \in Keys : ~HasLineBreak(Given(k))

\* the values the four placeholders stand for
Substitution ==
    [k \in {"jobTitle", "companyName", "strengths", "motivation"} |-> Given(k)]

\* a template of literal text and named placeholders, with every placeholder
\* replaced by its value
RECURSIVE Flatten(_)
Flatten(ss) == IF ss = <<>> THEN <<>> ELSE Head(ss) \o Flatten(Tail(ss))

Rendered(t, values) ==
    Flatten([i \in 1 .. Len(t) |->
        IF t[i] \in {"{", "}"} THEN <<>>
        ELSE IF i > 1 /\ t[i - 1] = "{" THEN values[t[i]]
        ELSE <<t[i]>>])

\* the sentences a pool can give for the input record
Sentences(pool) == {Rendered(pool[i], Substitution) : i \in 1 .. Len(pool)}

\* the literal text every template of a pool starts and ends with
LiteralText(pool) ==
    LET texts == {i \in 1 .. Len(pool) : pool[i] # <<>>}
    IN  {pool[i][1] : i \in texts} \cup {pool[i][Len(pool[i])] : i \in texts}

\* the places of a text where one of the sentences of a pool starts
PlacesOf(pool, text) ==
    {i \in 1 .. Len(text) :
        \E s \in Sentences(pool) :
            /\ i + Len(s) - 1 <= Len(text)
            /\ SubSeq(text, i, i + Len(s) - 1) = s}

\* some literal text of the pool occurs in the text
Mentions(pool, text) == \E i \in 1 .. Len(text) : text[i] \in LiteralText(pool)

PoolOf(key) ==
    IF key = "strengths" THEN strength_sentences ELSE motivation_sentences

PoolName(key) ==
    IF key = "strengths" THEN "strength_sentences" ELSE "motivation_sentences"

\* the draws of the run other than the one for the section of the key
DrawsWithout(key) ==
    LET Other(e) == e.pool # PoolName(key)
    IN  SelectSeq(draws, Other)

\* the numbers of a sequence of draws
Numbers(log) == [i \in 1 .. Len(log) |-> log[i].draw]

\* the input record without the key
RecordWithout(key) ==
    Dict([k \in DOMAIN stdin.value.items \ {key} |-> stdin.value.items[k]])

\* the lines of the output, less the sentence of the pool and the blank line
\* in front of it
LinesWithoutSection(pool) ==
    LET ls == Lines(stdout)
        at == CHOOSE i \in 1 .. Len(ls) : ls[i] \in Sentences(pool)
    IN  SubSeq(ls, 1, at - 2) \o SubSeq(ls, at + 1, Len(ls))

\* C1: a run that produced a letter from a record of strings has a strengths
\* sentence in its output exactly if the trimmed strengths field is not empty,
\* and likewise for the motivation; and when the values are single-line, the
\* letter for the record without the field, with the same draws for the other
\* sections, is the output less the sentence line and the blank line before it.
C1_OptionalSections ==
    (Succeeded /\ StringRecord) =>
        \A key \in {"strengths", "motivation"} :
            /\ Given(key) # <<>> => PlacesOf(PoolOf(key), stdout) # {}
            /\ Given(key) = <<>> => ~Mentions(PoolOf(key), stdout)
            /\ (Given(key) # <<>> /\ SingleLineValues) =>
                 LET other == generate_letter(RecordWithout(key),
                                              Numbers(DrawsWithout(key)))
                 IN  /\ other.raised = "none"
                     /\ other.log = DrawsWithout(key)
                     /\ \E i \in 2 .. Len(Lines(stdout)) :
                            /\ Lines(stdout)[i] \in Sentences(PoolOf(key))
                            /\ Lines(stdout)[i - 1] = <<>>
                     /\ Lines(other.value) = LinesWithoutSection(PoolOf(key))
                     /\ Len(Lines(other.value)) + 2 = Len(Lines(stdout))

C1_Witness ==
    /\ Succeeded
    /\ StringRecord
    /\ SingleLineValues
    /\ Given("strengths") # <<>>
    /\ "motivation" \in DOMAIN stdin.value.items
    /\ Given("motivation") = <<>>
    /\ "applicantAddress" \in DOMAIN stdin.value.items

NonEmpty(s) == s # <<>>

\* the trimmed contact fields that are not empty, in the order address, email, phone
ContactGiven ==
    SelectSeq(<<Given("applicantAddress"), Given("applicantEmail"),
                Given("applicantPhone")>>, NonEmpty)

\* blocks put one after the other with a line break between them
JoinBlocks(blocks) ==
    Flatten([i \in 1 .. Len(blocks) |->
        IF i = 1 THEN blocks[i] ELSE <<NL>> \o blocks[i]])

StartsWith(text, start) ==
    /\ Len(start) <= Len(text)
    /\ SubSeq(text, 1, Len(start)) = start

EndsWith(text, end) ==
    /\ Len(end) <= Len(text)
    /\ SubSeq(text, Len(text) - Len(end) + 1, Len(text)) = end

\* the head of the output, line by line, when there is contact information
ContactHead == <<Given("applicantName")>> \o ContactGiven \o << <<>>, salutation >>

\* the output starts with the salutation and the name is at its end only
NoContactBlock ==
    /\ StartsWith(stdout, salutation \o <<NL>>)
    /\ EndsWith(stdout, signature \o <<NL>> \o Given("applicantName"))

\* C2 as stated: with a contact field given, the first lines of the output are
\* the applicant name, the non-empty contact fields one per line in the order
\* address, email, phone, a blank line and the salutation; with none given,
\* the output starts with the salutation and the name is at its end only.
C2_Original ==
    (Succeeded /\ StringRecord) =>
        IF ContactGiven # <<>>
        THEN /\ Len(Lines(stdout)) >= Len(ContactHead)
             /\ SubSeq(Lines(stdout), 1, Len(ContactHead)) = ContactHead
        ELSE NoContactBlock

\* C2, amended: with a contact field given, the output starts with the
\* applicant name and the non-empty contact fields in the order address, email,
\* phone, each on a new line, then a blank line and the salutation, and when
\* none of these values holds a line break each of them is one line, as C2
\* states; with none given, the output starts with the salutation and the name
\* is at its end only.
C2_ContactBlock ==
    (Succeeded /\ StringRecord) =>
        IF ContactGiven # <<>>
        THEN /\ StartsWith(stdout, JoinBlocks(ContactHead) \o <<NL>>)
             /\ (\A i \in 1 .. Len(ContactHead) : ~HasLineBreak(ContactHead[i])) =>
                    /\ Len(Lines(stdout)) >= Len(ContactHead)
                    /\ SubSeq(Lines(stdout), 1, Len(ContactHead)) = ContactHead
        ELSE NoContactBlock

\* a letter with a blank address, and an e-mail address and a phone number
C2_Witness ==
    /\ Succeeded
    /\ StringRecord
    /\ "applicantAddress" \in DOMAIN stdin.value.items
    /\ Given("applicantAddress") = <<>>
    /\ Len(ContactGiven) = 2
    /\ Given("applicantName") # <<>>

\* the sentence of the variant that was drawn from the pool; empty when the
\* run drew none from it
SentenceDrawn(name, pool) ==
    LET From(e) == e.pool = name
        es == SelectSeq(draws, From)
    IN  IF es = <<>> THEN <<>>
        ELSE Rendered(pool[es[1].draw + 1], Substitution)

\* the blocks of the letter after the contact information
BodyBlocks ==
    <<salutation, <<>>, SentenceDrawn("introductions", introductions)>>
        \o (IF Given("strengths") # <<>>
            THEN << <<>>, SentenceDrawn("strength_sentences", strength_sentences) >>
            ELSE <<>>)
        \o (IF Given("motivation") # <<>>
            THEN << <<>>, SentenceDrawn("motivation_sentences", motivation_sentences) >>
            ELSE <<>>)
        \o << <<>>, SentenceDrawn("closing_sentences", closing_sentences),
              <<>>, signature, Given("applicantName") >>

\* the last lines of the output, as many as the letter has blocks
LastLines ==
    LET ls == Lines(stdout)
    IN  IF Len(ls) < Len(BodyBlocks) THEN ls
        ELSE SubSeq(ls, Len(ls) - Len(BodyBlocks) + 1, Len(ls))

\* C6 as stated: the lines of the output after any contact block are the
\* salutation, a blank, the introduction, a blank and the strengths sentence if
\* present, a blank and the motivation sentence if present, a blank, the
\* closing, a blank, the signature, and the trimmed applicant name as the last
\* line.
C6_Original ==
    (Succeeded /\ StringRecord) =>
        /\ LastLines = BodyBlocks
        /\ Len(Lines(stdout)) =
               Len(BodyBlocks) + (IF ContactGiven # <<>> THEN Len(ContactGiven) + 2 ELSE 0)

\* C6, amended: the output after any contact block is the blocks salutation,
\* blank, introduction, blank and strengths sentence if present, blank and
\* motivation sentence if present, blank, closing, blank, signature, trimmed
\* applicant name, joined by line breaks, and so ends with the trimmed
\* applicant name.  When no trimmed value holds a line break, every block is
\* one line, as C6 states.
C6_Structure ==
    (Succeeded /\ StringRecord) =>
        /\ EndsWith(stdout, JoinBlocks(BodyBlocks))
        /\ Len(stdout) =
               Len(JoinBlocks(BodyBlocks))
               + (IF ContactGiven # <<>>
                  THEN Len(JoinBlocks(<<Given("applicantName")>> \o ContactGiven)) + 2
                  ELSE 0)
        /\ EndsWith(stdout, signature \o <<NL>> \o Given("applicantName"))
        /\ SingleLineValues =>
            /\ LastLines = BodyBlocks
            /\ Len(Lines(stdout)) =
                   Len(BodyBlocks)
                   + (IF ContactGiven # <<>> THEN Len(ContactGiven) + 2 ELSE 0)

\* a letter with both optional sentences, contact information and no name
C6_Witness ==
    /\ Succeeded
    /\ StringRecord
    /\ Given("strengths") # <<>>
    /\ Given("motivation") # <<>>
    /\ ContactGiven # <<>>
    /\ Given("applicantName") = <<>>
    /\ Len(Lines(stdout)) >= 11

\* standard error holds one line, which starts with the fixed words
OneErrorLine ==
    /\ Len(stderr) >= 3
    /\ stderr[1] = "Error generating letter: "
    /\ stderr[Len(stderr)] = NL
    /\ \A i \in 1 .. Len(stderr) - 1 : stderr[i] # NL

\* C3: a run ends with status 0, the letter on standard output and nothing on
\* standard error, or with status 1, nothing on standard output and one line
\* "Error generating letter: <message>" on standard error; it fails on empty
\* input (with "No input provided" in the message), on input that is not
\* JSON, and on JSON that is not an object; nothing is on standard output
\* before the end, and a run that has not ended is at a statement of main.
C3_TwoOutcomes ==
    /\ pc # "exited" =>
        /\ stdout = <<>>
        /\ exitStatus = <<>>
        /\ pc \in {"read", "loads", "generate", "write", "except"}
    /\ pc = "exited" =>
        \/ /\ exitStatus = <<0>>
           /\ stdout = letter
           /\ letter # <<>>
           /\ stderr = <<>>
           /\ exc = NoException
        \/ /\ exitStatus = <<1>>
           /\ stdout = <<>>
           /\ OneErrorLine
    /\ (pc = "exited" /\ stdin.kind = "empty") =>
           /\ exitStatus = <<1>>
           /\ stderr = <<"Error generating letter: ",
                         "No input provided to the letter generator", NL>>
    /\ (pc = "exited" /\ stdin.kind = "text") => exitStatus = <<1>>
    /\ (pc = "exited" /\ stdin.kind = "json" /\ stdin.value.t # "dict") =>
           exitStatus = <<1>>
    /\ (pc = "exited" /\ StringRecord) => exitStatus = <<0>>

\* a run on empty input has ended
C3_Witness ==
    /\ pc = "exited"
    /\ stdin.kind = "empty"
    /\ stderr # <<>>

\* the recognized keys of the input record whose value is not a string
NonStringKeys ==
    {k \in Keys \cap DOMAIN stdin.value.items : stdin.value.items[k].t # "str"}

ObjectInput == stdin.kind = "json" /\ stdin.value.t = "dict"

\* str.format renders a number, null and a list as it renders a string
FormatTolerates(value) == value.t \in {"str", "int", "NoneType", "list"}

\* C7 as stated: a run on a record in which a recognized key holds a value
\* that is not a string, and that the formatting tolerates, ends with status 0.
C7_Original ==
    (pc = "exited" /\ ObjectInput /\ NonStringKeys # {}
        /\ \A k \in NonStringKeys : FormatTolerates(stdin.value.items[k])) =>
        exitStatus = <<0>>

\* the place in reading order of the first recognized key that holds no string
FirstOffender ==
    CHOOSE i \in 1 .. Len(FieldOrder) :
        /\ FieldOrder[i] \in NonStringKeys
        /\ \A j \in 1 .. i - 1 : FieldOrder[j] \notin NonStringKeys

\* C7, amended: a run on a record in which a recognized key holds a value that
\* is not a string always ends with status 1, nothing on standard output and
\* the line "Error generating letter: '<type>' object has no attribute 'strip'"
\* for the first such key in reading order, before any draw; a value that is
\* not a string under a key that is not recognized is not read.
C7_NonStringFails ==
    /\ (pc = "exited" /\ ObjectInput /\ NonStringKeys # {}) =>
        /\ exitStatus = <<1>>
        /\ stdout = <<>>
        /\ draws = <<>>
        /\ stderr = <<"Error generating letter: ", "'",
                      stdin.value.items[FieldOrder[FirstOffender]].t,
                      "' object has no attribute '", "strip", "'", NL>>
    /\ (pc = "exited" /\ ObjectInput /\ NonStringKeys = {}) => exitStatus = <<0>>

\* a run on a record with a number for the job title and for the motivation
C7_Witness ==
    /\ pc = "exited"
    /\ ObjectInput
    /\ Cardinality(NonStringKeys) = 2
    /\ stdin.value.items["jobTitle"].t = "int"

\* C8: a run on a record of strings over any of the eight keys never raises
\* and ends with a letter that holds exactly one introduction sentence, a
\* template of the introduction pool rendered with the trimmed jobTitle and
\* companyName, and exactly one closing sentence of the closing pool.
C8_AlwaysALetter ==
    StringRecord =>
        /\ pc # "except"
        /\ exc = NoException
        /\ pc = "exited" =>
            /\ exitStatus = <<0>>
            /\ Cardinality(PlacesOf(introductions, stdout)) = 1
            /\ Cardinality({i \in 1 .. Len(stdout) :
                    stdout[i] \in LiteralText(introductions)}) = 2
            /\ Cardinality(PlacesOf(closing_sentences, stdout)) = 1
            /\ Cardinality({i \in 1 .. Len(stdout) :
                    stdout[i] \in LiteralText(closing_sentences)}) = 1

\* a letter for the empty record
C8_Witness ==
    /\ Succeeded
    /\ StringRecord
    /\ DOMAIN stdin.value.items = {}

\* the placeholder names a template and a pool use
PlaceholdersOf(t) == {t[j] : j \in {k \in 2 .. Len(t) : t[k - 1] = "{"}}

Placeholders(pool) == UNION {PlaceholdersOf(pool[i]) : i \in 1 .. Len(pool)}

\* the text occurs in the other as it is
Occurs(text, other) ==
    \E i \in 1 .. Len(other) - Len(text) + 1 :
        SubSeq(other, i, i + Len(text) - 1) = text

TemplateDrawn(e) ==
    CASE e.pool = "introductions" -> introductions[e.draw + 1]
      [] e.pool = "strength_sentences" -> strength_sentences[e.draw + 1]
      [] e.pool = "motivation_sentences" -> motivation_sentences[e.draw + 1]
      [] e.pool = "closing_sentences" -> closing_sentences[e.draw + 1]

\* the values of the input record hold no brace
NoBraceGiven == \A k \in Keys : \A i \in 1 .. Len(Given(k)) : Given(k)[i] \notin {"{", "}"}

\* C9: the context defines every placeholder name the four pools use; in a
\* run on a record of strings every template drawn is formatted, none is
\* returned as written, and it occurs in the letter with every placeholder
\* replaced by its trimmed value; the letter holds a brace only where a value
\* of the record holds one.
C9_NoRawTemplate ==
    /\ Placeholders(introductions) \cup Placeholders(strength_sentences)
           \cup Placeholders(motivation_sentences) \cup Placeholders(closing_sentences)
         \subseteq DOMAIN context(<<>>, <<>>, <<>>, <<>>)
    /\ (Succeeded /\ StringRecord) =>
        /\ draws # <<>>
        /\ \A n \in 1 .. Len(draws) :
            /\ draws[n].formatted
            /\ Occurs(Rendered(TemplateDrawn(draws[n]), Substitution), stdout)
        /\ NoBraceGiven => \A i \in 1 .. Len(stdout) : stdout[i] \notin {"{", "}"}

\* a letter with a motivation sentence, and one whose job title reads like a
\* placeholder
C9_Witness ==
    /\ Succeeded
    /\ StringRecord
    /\ Given("motivation") # <<>>
    /\ Given("strengths") # <<>>
    /\ Len(draws) = 4

\* the pools a call draws from for the input record, in order
PoolsDrawn ==
    <<"introductions">>
        \o (IF Given("strengths") # <<>> THEN <<"strength_sentences">> ELSE <<>>)
        \o (IF Given("motivation") # <<>> THEN <<"motivation_sentences">> ELSE <<>>)
        \o <<"closing_sentences">>

\* C10: a call of generate_letter on a record of strings takes one draw for
\* the introduction, one for the strengths if the trimmed field is not empty,
\* one for the motivation if the trimmed field is not empty and one for the
\* closing, in this order and no other; a call that raises takes none; and
\* the input record is afterwards what json.loads returned.
C10_Draws ==
    /\ (pc \in {"write", "exited"} /\ StringRecord) =>
        /\ Len(draws) = Len(PoolsDrawn)
        /\ \A n \in 1 .. Len(draws) : draws[n].pool = PoolsDrawn[n]
        /\ Len(draws) = 2 + (IF Given("strengths") # <<>> THEN 1 ELSE 0)
                          + (IF Given("motivation") # <<>> THEN 1 ELSE 0)
        /\ data = stdin.value
    /\ (pc \in {"read", "loads", "generate", "except"}) => draws = <<>>
    /\ (pc = "exited" /\ exitStatus = <<1>>) => draws = <<>>
    /\ (pc \in {"generate", "write", "except", "exited"} /\ stdin.kind = "json") =>
        data = stdin.value

\* a letter with a strengths sentence and a blank motivation field
C10_Witness ==
    /\ Succeeded
    /\ StringRecord
    /\ Given("strengths") # <<>>
    /\ "motivation" \in DOMAIN stdin.value.items
    /\ Given("motivation") = <<>>
    /\ Len(draws) = 3

\* the optional parts the text of a letter has
HasSection(pool, text) == Mentions(pool, text)
HasContactBlock(text) == text # <<>> /\ ~StartsWith(text, salutation)

\* C5: the second run of the command on the same input ends as the first
\* did; with the same draws its output is the same text; with other draws its
\* output has the same number of lines and the same optional parts (contact
\* block, strengths, motivation), and a line that differs is in both a
\* sentence of the same pool.
C5_Repeatable ==
    (pc = "exited" /\ prev # NoRun) =>
        /\ prev.stdin = stdin
        /\ prev.exitStatus = exitStatus
        /\ Len(prev.draws) = Len(draws)
        /\ prev.draws = draws => prev.stdout = stdout
        /\ Len(Lines(prev.stdout)) = Len(Lines(stdout))
        /\ HasContactBlock(prev.stdout) <=> HasContactBlock(stdout)
        /\ \A pool \in {strength_sentences, motivation_sentences} :
               HasSection(pool, prev.stdout) <=> HasSection(pool, stdout)
        /\ \A i \in 1 .. Len(Lines(stdout)) :
               Lines(prev.stdout)[i] # Lines(stdout)[i] =>
                   \E pool \in {introductions, strength_sentences,
                                motivation_sentences, closing_sentences} :
                       /\ Mentions(pool, Lines(prev.stdout)[i])
                       /\ Mentions(pool, Lines(stdout)[i])

\* a second run that drew other variants than the first, for a letter with a
\* contact block and a strengths sentence
C5_Witness ==
    /\ pc = "exited"
    /\ prev # NoRun
    /\ prev.draws # draws
    /\ prev.stdout # stdout
    /\ HasContactBlock(stdout)
    /\ HasSection(strength_sentences, stdout)

\* a template of literal text and named placeholders
Named(t) ==
    \A i \in 1 .. Len(t) :
        /\ t[i] = "{" => (i + 2 <= Len(t) /\ t[i + 1] \notin {"{", "}"} /\ t[i + 2] = "}")
        /\ t[i] = "}" => (i >= 3 /\ t[i - 2] = "{")

\* the template the call chose
Chosen == argTemplates[(draws[1].draw % Len(argTemplates)) + 1]

\* the chosen format string has escaped braces and is otherwise well formed
Escaped(t) == t = <<"Die Menge ", "{", "{", "jobTitle", "}", "}">>

\* C4: a call of choose_sentence on a pool that is not empty does not raise;
\* for a chosen template of literal text and named placeholders it returns the
\* template with every placeholder replaced by its context value when the
\* context defines them all, and the template as it was written when it does
\* not; a chosen format string with escaped braces it returns with single
\* braces, and one that str.format rejects as it was written.
C4_NeverRaises ==
    (result # NoResult /\ argTemplates # <<>>) =>
        /\ result.raised = "none"
        /\ result.rng = <<>>
        /\ Named(Chosen) =>
            IF PlaceholdersOf(Chosen) \subseteq DOMAIN argContext
            THEN result.value = Rendered(Chosen, argContext)
            ELSE result.value = Chosen
        /\ (~Named(Chosen) /\ ~Escaped(Chosen)) => result.value = Chosen
        /\ Escaped(Chosen) => result.value = <<"Die Menge ", "{", "jobTitle", "}">>
        /\ result.formatted <=> result.value # Chosen \/ PlaceholdersOf(Chosen) = {}

\* a call that chose a template with a placeholder the context does not define
C4_Witness ==
    /\ result # NoResult
    /\ Len(argTemplates) = 2
    /\ Named(Chosen)
    /\ PlaceholdersOf(Chosen) \cap DOMAIN argContext # {}
    /\ ~(PlaceholdersOf(Chosen) \subseteq DOMAIN argContext)
    /\ result.value = Chosen

====
